---- MODULE Spec2Model ----
(***************************************************************************)
(* ModflowFlwob (flopy/modflow/mfflwob.py): the head-dependent flow        *)
(* boundary observation package.  The constructor selects the metadata of  *)
(* one of four boundary types and copies the caller's ragged cell lists    *)
(* into dense numpy arrays; write_file streams the primary file and the    *)
(* instruction file.                                                       *)
(*                                                                         *)
(* Conventions.  Python lists and numpy arrays are TLA+ sequences, so      *)
(* Python index k is element k+1.  A line of an output file is the record  *)
(* of the values that the format string of that line is applied to; the    *)
(* column layout of the text is not modelled.  Floating point values are   *)
(* strings ("0.2", "1.0") for factors and small integers for toffset and   *)
(* flwobs, all exactly representable in float32.  A string the code        *)
(* inspects character by character (flowtype) is a sequence of one         *)
(* character strings.  An exception that leaves a method is the name of    *)
(* its Python class.  A file is the sequence of lines handed to its        *)
(* write() calls, also when an exception ends the call before close().     *)
(*                                                                         *)
(* Callers.  flowtype is a string; nqobfb and nqclfb have nqfb entries;    *)
(* the observation counts nqobfb[i] are not negative; the flags nqclfb[i]  *)
(* take every sign.  The other lists have the documented lengths, or one   *)
(* of them (or nqtfb) is off by one.                                       *)
(***************************************************************************)
EXTENDS Integers, Sequences, FiniteSets, TLC

\* ----------------------------------------------------------------- bounds
MaxGroups == 2      \* nqfb ranges over 0..MaxGroups
MaxObs == 2         \* nqobfb[i] ranges over 0..MaxObs
MaxCells == 2       \* nqclfb[i] ranges over -MaxCells..MaxCells
MaxPad == 1         \* whitespace characters before and after a flowtype tag
MaxWrites == 2      \* calls of write_file on one object

VARIABLES
  pc,       \* "start" | "built" (constructor returned) | "failed" (it raised)
  args,     \* the arguments the constructor was called with
  err,      \* the exception the constructor raised, "" if none
  pkg,      \* the arguments of the Package.__init__ call, plus heading and url
  self,     \* the attributes of the object
  built0,   \* the attributes of the object when the constructor returned
  writes,   \* number of write_file calls so far
  werr,     \* the exception the last write_file call raised, "" if none
  c,        \* the cursor c of the last write_file call when the call ended
  f_fbob,   \* the lines the last write_file call wrote to the primary file
  f_ins,    \* the lines in the instruction file
  prev      \* f_fbob, f_ins and werr as the call before the last one left them

vars == <<pc, args, err, pkg, self, built0, writes, werr, c, f_fbob, f_ins, prev>>

\* ---------------------------------------------------------------- helpers
Abs(x) == IF x < 0 THEN -x ELSE x

Min(a, b) == IF a < b THEN a ELSE b

RECURSIVE SumSeq(_)
SumSeq(s) == IF s = <<>> THEN 0 ELSE Head(s) + SumSeq(Tail(s))

RECURSIVE SumAbs(_)
SumAbs(s) == IF s = <<>> THEN 0 ELSE Abs(Head(s)) + SumAbs(Tail(s))

\* Python's max() of a non-empty list of integers.
RECURSIVE PyMax(_)
PyMax(s) == IF Len(s) = 1 THEN s[1]
            ELSE LET m == PyMax(Tail(s)) IN IF s[1] > m THEN s[1] ELSE m

\* ------------------------------------------------------------ flowtype tag
Lower == <<"c", "h", "d", "g", "b", "r", "n", "i", "v", "x", "y", "z">>
Upper == <<"C", "H", "D", "G", "B", "R", "N", "I", "V", "X", "Y", "Z">>
Whitespace == {" ", "\t"}

\* str.upper() on one character.
UpperChar(ch) == IF \E k \in 1..Len(Lower) : Lower[k] = ch
                 THEN Upper[CHOOSE k \in 1..Len(Lower) : Lower[k] = ch]
                 ELSE ch

\* str.upper()
StrUpper(s) == [k \in 1..Len(s) |-> UpperChar(s[k])]

RECURSIVE LStrip(_)
LStrip(s) == IF s # <<>> /\ Head(s) \in Whitespace THEN LStrip(Tail(s)) ELSE s

RECURSIVE RStrip(_)
RStrip(s) == IF s # <<>> /\ s[Len(s)] \in Whitespace
             THEN RStrip(SubSeq(s, 1, Len(s) - 1)) ELSE s

\* str.strip()
StrStrip(s) == RStrip(LStrip(s))

\* The four tags the if-chain of the constructor compares with, in its order.
FlowTypes == << <<"C", "H", "D">>, <<"G", "H", "B">>, <<"D", "R", "N">>, <<"R", "I", "V">> >>

\* The name list of each branch.
Names == << <<"CHOB", "DATA">>, <<"GBOB", "DATA">>, <<"DROB", "DATA">>, <<"RVOB", "DATA">> >>

Urls == <<"chob.htm", "gbob.htm", "drob.htm", "rvob.htm">>

Headings == <<"# CHOB for MODFLOW, generated by Flopy.",
              "# GBOB for MODFLOW, generated by Flopy.",
              "# DROB for MODFLOW, generated by Flopy.",
              "# RVOB for MODFLOW, generated by Flopy.">>

\* The defaults of the parameters extension and unitnumber.
DefaultExtension == <<"chob", "obc", "gbob", "obg", "drob", "obd", "rvob", "obr">>
DefaultUnitnumber == <<40, 140, 41, 141, 42, 142, 43, 143>>

\* Python's s[lo:hi] for 0 <= lo <= hi.
PySlice(s, lo, hi) == SubSeq(s, lo + 1, Min(hi, Len(s)))

\* The branch of the if-chain that flowtype takes: 1..4, or 0 when no
\* comparison succeeds (the chain has no else).
Branch(flowtype) ==
  LET t == StrStrip(StrUpper(flowtype))
  IN IF \E k \in 1..4 : FlowTypes[k] = t
     THEN CHOOSE k \in 1..4 : FlowTypes[k] = t
     ELSE 0

\* The slice bounds each branch applies to extension and unitnumber.
SliceLo(k) == 2 * (k - 1)
SliceHi(k) == 2 * k

\* Select with the branch leaving iufbobsv as the caller passed it.
SelectKeepUnit(k, a) ==
  [name |-> Names[k],
   extension |-> PySlice(a.extension, SliceLo(k), SliceHi(k)),
   unitnumber |-> PySlice(a.unitnumber, SliceLo(k), SliceHi(k)),
   iufbobsv |-> a.iufbobsv,
   url |-> Urls[k],
   heading |-> Headings[k]]

\* What a branch binds: name, extension, unitnumber, iufbobsv, url, heading.
Select(k, a) ==
  LET unitnumber == PySlice(a.unitnumber, SliceLo(k), SliceHi(k))
  IN [name |-> Names[k],
      extension |-> PySlice(a.extension, SliceLo(k), SliceHi(k)),
      unitnumber |-> unitnumber,
      iufbobsv |-> unitnumber[2],
      url |-> Urls[k],
      heading |-> Headings[k]]

\* --------------------------------------------------- numpy array assignment
\* dst[:] = src for a one-dimensional dst of n entries: src must have n
\* entries, or one entry, which is broadcast.
CanAssign(n, src) == Len(src) = n \/ Len(src) = 1

Assign(n, src) == [k \in 1..n |-> IF Len(src) = n THEN src[k] ELSE src[1]]

\* dst[i, :len(src)] = src for a zero row of width w: the slice has
\* min(len(src), w) entries.
CanCopyRow(w, src) == CanAssign(Min(Len(src), w), src)

CopyRow(w, src, zero) ==
  LET n == Min(Len(src), w)
      head == Assign(n, src)
  IN [j \in 1..w |-> IF j <= n THEN head[j] ELSE zero]

\* ------------------------------------------------------------ constructor
NoPackage == [name |-> <<>>, extension |-> <<>>, unitnumber |-> <<>>,
              iufbobsv |-> 0, url |-> "", heading |-> ""]

NoObject == [nqfb |-> 0, nqcfb |-> 0, nqtfb |-> 0, iufbobsv |-> 0, tomultfb |-> "",
             nqobfb |-> <<>>, nqclfb |-> <<>>, obsnam |-> <<>>, irefsp |-> <<>>,
             toffset |-> <<>>, flwobs |-> <<>>, layer |-> <<>>, row |-> <<>>,
             column |-> <<>>, factor |-> <<>>]

\* The width of the dense cell arrays.
Width(a) == PyMax(a.nqclfb)

\* The exception the array part of the constructor raises, "" if none.
ArrayError(a) ==
  IF a.nqclfb = <<>> THEN "ValueError"                 \* max() of an empty list
  ELSE IF a.nqfb < 0 \/ Width(a) < 0 THEN "ValueError" \* negative dimension
  ELSE IF ~ CanAssign(a.nqfb, a.nqobfb) THEN "ValueError"
  ELSE IF ~ CanAssign(a.nqfb, a.nqclfb) THEN "ValueError"
  ELSE IF ~ CanAssign(a.nqtfb, a.irefsp) THEN "ValueError"
  ELSE IF ~ CanAssign(a.nqtfb, a.toffset) THEN "ValueError"
  ELSE IF ~ CanAssign(a.nqtfb, a.flwobs) THEN "ValueError"
  ELSE IF \E i \in 1..a.nqfb : i > Len(a.layer) \/ i > Len(a.row)
                               \/ i > Len(a.column) \/ i > Len(a.factor)
       THEN "IndexError"
  ELSE IF \E i \in 1..a.nqfb : ~ (/\ CanCopyRow(Width(a), a.layer[i])
                                  /\ CanCopyRow(Width(a), a.row[i])
                                  /\ CanCopyRow(Width(a), a.column[i])
                                  /\ CanCopyRow(Width(a), a.factor[i]))
       THEN "ValueError"
  ELSE ""

\* The attributes of the object when the constructor returns.
Attributes(a, iufbobsv) ==
  [nqfb |-> a.nqfb, nqcfb |-> a.nqcfb, nqtfb |-> a.nqtfb, iufbobsv |-> iufbobsv,
   tomultfb |-> a.tomultfb,
   nqobfb |-> Assign(a.nqfb, a.nqobfb),
   nqclfb |-> Assign(a.nqfb, a.nqclfb),
   obsnam |-> a.obsnam,
   irefsp |-> Assign(a.nqtfb, a.irefsp),
   toffset |-> Assign(a.nqtfb, a.toffset),
   flwobs |-> Assign(a.nqtfb, a.flwobs),
   layer |-> [i \in 1..a.nqfb |-> CopyRow(Width(a), a.layer[i], 0)],
   row |-> [i \in 1..a.nqfb |-> CopyRow(Width(a), a.row[i], 0)],
   column |-> [i \in 1..a.nqfb |-> CopyRow(Width(a), a.column[i], 0)],
   factor |-> [i \in 1..a.nqfb |-> CopyRow(Width(a), a.factor[i], "0.0")]]

\* ModflowFlwob.__init__ on the arguments a: the exception it raises (""
\* if it returns), the arguments of its Package.__init__ call, the object.
Init__(a) ==
  LET k == Branch(a.flowtype)
  IN IF k = 0
     THEN [err |-> "UnboundLocalError", pkg |-> NoPackage, self |-> NoObject]
     ELSE IF Len(PySlice(a.unitnumber, SliceLo(k), SliceHi(k))) < 2
     THEN [err |-> "IndexError", pkg |-> NoPackage, self |-> NoObject]
     ELSE IF ArrayError(a) # ""
     THEN [err |-> ArrayError(a), pkg |-> Select(k, a), self |-> NoObject]
     ELSE [err |-> "", pkg |-> Select(k, a),
           self |-> Attributes(a, Select(k, a).iufbobsv)]

\* -------------------------------------------------------------- write_file
\* The lines of the primary file.
HeadingLine(h) == [kind |-> "heading", text |-> h]

HeaderLine(o) == [kind |-> "header", nqfb |-> o.nqfb, nqcfb |-> o.nqcfb,
                  nqtfb |-> o.nqtfb, iufbobsv |-> o.iufbobsv]

TomultLine(o) == [kind |-> "tomultfb", tomultfb |-> o.tomultfb]

\* Section 3: the header of group i.
GroupLine(o, i) == [kind |-> "group", nqobfb |-> o.nqobfb[i], nqclfb |-> o.nqclfb[i]]

\* Section 4: the observation at cursor k (Python index k).
ObsLine(o, k) == [kind |-> "obs", obsnam |-> o.obsnam[k + 1], irefsp |-> o.irefsp[k + 1],
                  toffset |-> o.toffset[k + 1], flwobs |-> o.flwobs[k + 1]]

\* Section 5: cell j of group i, with the factor array as it is now.
CellLine(o, factor, i, j) == [kind |-> "cell", layer |-> o.layer[i][j], row |-> o.row[i][j],
                              column |-> o.column[i][j], factor |-> factor[i][j]]

\* self.factor[i, :] = 1.0
FillRow(factor, i) == [factor EXCEPT ![i] = [j \in 1..Len(@) |-> "1.0"]]

\* ObsLoop with the lists indexed by the position j within the group
\* instead of the cursor c.
RECURSIVE ObsLoopLocal(_, _, _, _)
ObsLoopLocal(o, st, n, j) ==
  IF n <= 0 \/ st.err # "" THEN st
  ELSE IF j >= Len(o.obsnam) \/ j >= Len(o.irefsp)
          \/ j >= Len(o.toffset) \/ j >= Len(o.flwobs)
       THEN [st EXCEPT !.err = "IndexError"]
       ELSE ObsLoopLocal(o, [st EXCEPT !.out = Append(@, ObsLine(o, j)), !.c = @ + 1],
                         n - 1, j + 1)

ObsLoopPerGroup(o, st, n) == ObsLoopLocal(o, st, n, 0)

\* The loops work on the state st of the running call: the lines written so
\* far (out), the factor array, the cursor c and the exception that ended
\* the call (err, "" if none).
\* The loop over the observation times of a group, n iterations left.
RECURSIVE ObsLoop(_, _, _)
ObsLoop(o, st, n) ==
  IF n <= 0 \/ st.err # "" THEN st
  ELSE IF st.c >= Len(o.obsnam) \/ st.c >= Len(o.irefsp)
          \/ st.c >= Len(o.toffset) \/ st.c >= Len(o.flwobs)
       THEN [st EXCEPT !.err = "IndexError"]
       ELSE ObsLoop(o, [st EXCEPT !.out = Append(@, ObsLine(o, st.c)), !.c = @ + 1], n - 1)

\* CellLoop with the cell line formatted before the factor row is set.
RECURSIVE CellLoopLate(_, _, _, _)
CellLoopLate(o, st, i, j) ==
  IF j > Abs(o.nqclfb[i]) \/ st.err # "" THEN st
  ELSE LET factor == IF o.nqclfb[i] < 0 THEN FillRow(st.factor, i) ELSE st.factor
       IN IF j > Len(o.layer[i]) \/ j > Len(o.row[i]) \/ j > Len(o.column[i])
             \/ j > Len(factor[i])
          THEN [st EXCEPT !.factor = factor, !.err = "IndexError"]
          ELSE CellLoopLate(o, [st EXCEPT !.factor = factor,
                                          !.out = Append(@, CellLine(o, st.factor, i, j))],
                            i, j + 1)

\* CellLoop with self.factor[i, j] = 1.0 in place of self.factor[i, :] = 1.0.
RECURSIVE CellLoopOneCell(_, _, _, _)
CellLoopOneCell(o, st, i, j) ==
  IF j > Abs(o.nqclfb[i]) \/ st.err # "" THEN st
  ELSE IF j > Len(o.layer[i]) \/ j > Len(o.row[i]) \/ j > Len(o.column[i])
          \/ j > Len(st.factor[i])
       THEN [st EXCEPT !.err = "IndexError"]
       ELSE LET factor == IF o.nqclfb[i] < 0 THEN [st.factor EXCEPT ![i][j] = "1.0"]
                          ELSE st.factor
            IN CellLoopOneCell(o, [st EXCEPT !.factor = factor,
                                             !.out = Append(@, CellLine(o, factor, i, j))],
                               i, j + 1)

\* The loop over the cells of group i, from cell j (1-based) on.
RECURSIVE CellLoop(_, _, _, _)
CellLoop(o, st, i, j) ==
  IF j > Abs(o.nqclfb[i]) \/ st.err # "" THEN st
  ELSE LET factor == IF o.nqclfb[i] < 0 THEN FillRow(st.factor, i) ELSE st.factor
       IN IF j > Len(o.layer[i]) \/ j > Len(o.row[i]) \/ j > Len(o.column[i])
             \/ j > Len(factor[i])
          THEN [st EXCEPT !.factor = factor, !.err = "IndexError"]
          ELSE CellLoop(o, [st EXCEPT !.factor = factor,
                                      !.out = Append(@, CellLine(o, factor, i, j))],
                        i, j + 1)

\* The loop over the groups, from group i (1-based) on.
RECURSIVE GroupLoop(_, _, _)
GroupLoop(o, st, i) ==
  IF i > o.nqfb \/ st.err # "" THEN st
  ELSE GroupLoop(o,
                 CellLoop(o,
                          ObsLoop(o, [st EXCEPT !.out = Append(@, GroupLine(o, i))],
                                  o.nqobfb[i]),
                          i, 1),
                 i + 1)

\* The primary file part of write_file.
WritePrimary(o, heading) ==
  GroupLoop(o, [out |-> <<HeadingLine(heading), HeaderLine(o), TomultLine(o)>>,
                factor |-> o.factor, c |-> 0, err |-> ""], 1)

\* The instruction file part: the lines written and the exception, if any.
InsPreamble(o) == <<[kind |-> "jif", text |-> "jif @"],
                    [kind |-> "StandardFile", nqtfb |-> o.nqtfb]>>

InsName(o, k) == [kind |-> "name", obsnam |-> o.obsnam[k + 1]]

InsLines(o) == [k \in 1..Min(o.nqtfb, Len(o.obsnam)) |-> InsName(o, k - 1)]

WriteIns(o) ==
  [out |-> InsPreamble(o) \o InsLines(o),
   err |-> IF o.nqtfb > Len(o.obsnam) THEN "IndexError" ELSE ""]

\* ------------------------------------------------- the caller's arguments
\* The values the caller's lists hold, by position (1-based).
ObsName(k) == "o" \o ToString(k)
FactorValues == <<"0.2", "0.5", "0.9">>
CellFactor(i, j) == FactorValues[((i + j - 2) % Len(FactorValues)) + 1]

\* A departure of the caller's lists from the documented shapes: the list
\* `what` (or the count nqtfb) is off by delta; for a cell list, in group g.
FlatLists == {"obsnam", "irefsp", "toffset", "flwobs"}
CellLists == {"layer", "row", "column", "factor"}
NoDeparture == [what |-> "none", delta |-> 0, g |-> 0]
FlatDepartures == [what : FlatLists \cup {"nqtfb"}, delta : {-1, 1}, g : {0}]
CellDepartures(nqfb) == [what : CellLists, delta : {-1, 1}, g : 1..nqfb]

Off(p, what, g) == IF p.what = what /\ p.g = g THEN p.delta ELSE 0

\* The arguments of one constructor call.
MkArgs(flowtype, iufbobsv, extension, unitnumber, nqobfb, nqclfb, p) ==
  LET nqfb == Len(nqobfb)
      n == SumSeq(nqobfb)
      cells(what, i) == Abs(nqclfb[i]) + Off(p, what, i)
  IN [flowtype |-> flowtype, nqfb |-> nqfb, nqcfb |-> SumAbs(nqclfb),
      nqtfb |-> n + Off(p, "nqtfb", 0), iufbobsv |-> iufbobsv, tomultfb |-> "1.0",
      nqobfb |-> nqobfb, nqclfb |-> nqclfb,
      obsnam |-> [k \in 1..(n + Off(p, "obsnam", 0)) |-> ObsName(k)],
      irefsp |-> [k \in 1..(n + Off(p, "irefsp", 0)) |-> k],
      toffset |-> [k \in 1..(n + Off(p, "toffset", 0)) |-> 10 * k],
      flwobs |-> [k \in 1..(n + Off(p, "flwobs", 0)) |-> -k],
      layer |-> [i \in 1..nqfb |-> [j \in 1..cells("layer", i) |-> i]],
      row |-> [i \in 1..nqfb |-> [j \in 1..cells("row", i) |-> j]],
      column |-> [i \in 1..nqfb |-> [j \in 1..cells("column", i) |-> i + j]],
      factor |-> [i \in 1..nqfb |-> [j \in 1..cells("factor", i) |-> CellFactor(i, j)]],
      extension |-> extension, unitnumber |-> unitnumber]

\* No list has a negative length.
Possible(nqobfb, nqclfb, p) ==
  IF p.g > 0 THEN Abs(nqclfb[p.g]) + p.delta >= 0
  ELSE SumSeq(nqobfb) + p.delta >= 0

\* Flowtype tags: the four types and an unknown one, in upper, lower and
\* mixed case, with up to MaxPad blanks on either side; and some others.
Pad(n) == [k \in 1..n |-> " "]
LowerChar(ch) == IF \E k \in 1..Len(Upper) : Upper[k] = ch
                 THEN Lower[CHOOSE k \in 1..Len(Upper) : Upper[k] = ch]
                 ELSE ch
Cases(t) == {t, [k \in 1..Len(t) |-> LowerChar(t[k])],
             [k \in 1..Len(t) |-> IF k = 1 THEN t[k] ELSE LowerChar(t[k])]}
Tags ==
  UNION { { Pad(l) \o t \o Pad(r) : l \in 0..MaxPad, r \in 0..MaxPad, t \in Cases(FlowTypes[k]) } :
          k \in 1..4 }
  \cup { Pad(l) \o t \o Pad(r) : l \in 0..MaxPad, r \in 0..MaxPad, t \in Cases(<<"X", "Y", "Z">>) }
  \cup { <<>>, <<" ">>, <<"C", "H">>, <<"C", " ", "H", "D">>, <<"C", "H", "D", "X">>,
         <<"\t", "r", "i", "v", "\t">>, <<"G", "H", "B", " ", "\t">> }

OtherExtension == <<"e0", "e1", "e2", "e3", "e4", "e5", "e6", "e7">>
OtherUnitnumber == <<50, 51, 52, 53, 54, 55, 56, 57>>

NoArgs == MkArgs(<<>>, 0, <<>>, <<>>, <<>>, <<>>, NoDeparture)

\* --------------------------------------------------------------- behaviour
NoFiles == [f_fbob |-> <<>>, f_ins |-> <<>>, werr |-> ""]

Init ==
  /\ pc = "start"
  /\ args = NoArgs
  /\ err = ""
  /\ pkg = NoPackage
  /\ self = NoObject
  /\ built0 = NoObject
  /\ writes = 0
  /\ werr = ""
  /\ c = 0
  /\ f_fbob = <<>>
  /\ f_ins = <<>>
  /\ prev = NoFiles

\* ModflowFlwob(model, ...): the constructor called with the arguments a.
Construct(a) ==
  /\ pc = "start"
  /\ LET r == Init__(a)
     IN /\ pc' = IF r.err = "" THEN "built" ELSE "failed"
        /\ args' = a
        /\ err' = r.err
        /\ pkg' = r.pkg
        /\ self' = r.self
        /\ built0' = r.self
  /\ UNCHANGED <<writes, werr, c, f_fbob, f_ins, prev>>

\* Constructor calls with lists of the documented shapes: every choice of
\* the observation counts and the cell flags of up to MaxGroups groups.
ConstructShapes ==
  /\ pc = "start"
  /\ \E nqfb \in 0..MaxGroups :
    \E nqobfb \in [1..nqfb -> 0..MaxObs], nqclfb \in [1..nqfb -> -MaxCells..MaxCells] :
      Construct(MkArgs(<<"d", "r", "n">>, 0, DefaultExtension, DefaultUnitnumber,
                       nqobfb, nqclfb, NoDeparture))

\* Constructor calls where nqtfb or one of the lists indexed by observation
\* departs from the sum of the observation counts; one cell per group.
ConstructFlatDeparture ==
  /\ pc = "start"
  /\ \E nqfb \in 1..MaxGroups :
    \E nqobfb \in [1..nqfb -> 0..MaxObs], p \in FlatDepartures :
      /\ Possible(nqobfb, [i \in 1..nqfb |-> 1], p)
      /\ Construct(MkArgs(<<"g", "h", "b">>, 0, DefaultExtension, DefaultUnitnumber,
                          nqobfb, [i \in 1..nqfb |-> 1], p))

\* Constructor calls where one cell list of one group departs from the
\* absolute value of the group's flag; one observation per group.
ConstructCellDeparture ==
  /\ pc = "start"
  /\ \E nqfb \in 1..MaxGroups :
    \E nqclfb \in [1..nqfb -> -MaxCells..MaxCells], p \in CellDepartures(nqfb) :
      /\ Possible([i \in 1..nqfb |-> 1], nqclfb, p)
      /\ Construct(MkArgs(<<"r", "i", "v">>, 0, DefaultExtension, DefaultUnitnumber,
                          [i \in 1..nqfb |-> 1], nqclfb, p))

\* Constructor calls that vary the flowtype, the unit the caller asks for
\* and the tables, for one shape.
ConstructTags ==
  /\ pc = "start"
  /\ \E t \in Tags, u \in {0, 7} :
    \E x \in {<<DefaultExtension, DefaultUnitnumber>>, <<OtherExtension, OtherUnitnumber>>} :
      Construct(MkArgs(t, u, x[1], x[2], <<2>>, <<1>>, NoDeparture))

\* write_file(): one call, to its return or to the exception that ends it.
\* The instruction file is opened only when the primary file is complete.
WriteFile ==
  /\ pc = "built"
  /\ writes < MaxWrites
  /\ LET p == WritePrimary(self, pkg.heading)
         q == WriteIns(self)
     IN /\ self' = [self EXCEPT !.factor = p.factor]
        /\ f_fbob' = p.out
        /\ c' = p.c
        /\ f_ins' = IF p.err = "" THEN q.out ELSE f_ins
        /\ werr' = IF p.err = "" THEN q.err ELSE p.err
  /\ prev' = [f_fbob |-> f_fbob, f_ins |-> f_ins, werr |-> werr]
  /\ writes' = writes + 1
  /\ UNCHANGED <<pc, args, err, pkg, built0>>

Next ==
  \/ ConstructShapes
  \/ ConstructFlatDeparture
  \/ ConstructCellDeparture
  \/ ConstructTags
  \/ WriteFile

Spec == Init /\ [][Next]_vars

\* ------------------------------------------------------------ properties
\* The documented shapes of the constructor's lists.
Documented(a) ==
  /\ Len(a.nqobfb) = a.nqfb /\ Len(a.nqclfb) = a.nqfb
  /\ SumSeq(a.nqobfb) = a.nqtfb
  /\ Len(a.obsnam) = a.nqtfb /\ Len(a.irefsp) = a.nqtfb
  /\ Len(a.toffset) = a.nqtfb /\ Len(a.flwobs) = a.nqtfb
  /\ Len(a.layer) = a.nqfb /\ Len(a.row) = a.nqfb
  /\ Len(a.column) = a.nqfb /\ Len(a.factor) = a.nqfb
  /\ \A i \in 1..a.nqfb :
       /\ Len(a.layer[i]) = Abs(a.nqclfb[i]) /\ Len(a.row[i]) = Abs(a.nqclfb[i])
       /\ Len(a.column[i]) = Abs(a.nqclfb[i]) /\ Len(a.factor[i]) = Abs(a.nqclfb[i])

\* The shape mismatches of the error taxonomy.
ShapeMismatch(a) ==
  \/ \E i \in 1..a.nqfb :
       \/ Len(a.layer[i]) # Abs(a.nqclfb[i]) \/ Len(a.row[i]) # Abs(a.nqclfb[i])
       \/ Len(a.column[i]) # Abs(a.nqclfb[i]) \/ Len(a.factor[i]) # Abs(a.nqclfb[i])
  \/ SumSeq(a.nqobfb) # a.nqtfb
  \/ Len(a.obsnam) # a.nqtfb \/ Len(a.irefsp) # a.nqtfb
  \/ Len(a.toffset) # a.nqtfb \/ Len(a.flwobs) # a.nqtfb

IsObs(line) == line.kind = "obs"
IsCell(line) == line.kind = "cell"

\* The observation records of a primary file, in file order.
ObsRecords(file) == SelectSeq(file, IsObs)

\* The record the caller's lists hold at flattened position k (1-based).
CallerRecord(a, k) == [kind |-> "obs", obsnam |-> a.obsnam[k], irefsp |-> a.irefsp[k],
                       toffset |-> a.toffset[k], flwobs |-> a.flwobs[k]]

\* A write_file call has returned.
Written == pc = "built" /\ writes >= 1 /\ werr = ""

\* C1: an object built from lists of the documented shapes writes exactly
\* nqtfb observation records, the k-th from flattened index k of the
\* caller's lists, and its cursor ends at sum(nqobfb) = nqtfb.
C1_CursorConsumesAllRecords ==
  (pc = "built" /\ Documented(args) /\ writes >= 1) =>
    /\ Len(ObsRecords(f_fbob)) = args.nqtfb
    /\ \A k \in 1..Len(ObsRecords(f_fbob)) :
         k <= args.nqtfb /\ ObsRecords(f_fbob)[k] = CallerRecord(args, k)
    /\ c = SumSeq(args.nqobfb)
    /\ c = args.nqtfb

\* C2: when write_file has returned, the instruction file is the two
\* preamble lines followed by exactly nqtfb name lines, the k-th being
\* obsnam[k], and the k-th observation record of the primary file carries
\* the name of instruction line k.
C2_InstructionFileFollowsPrimary ==
  Written =>
    /\ Len(f_ins) = 2 + self.nqtfb
    /\ f_ins[1] = [kind |-> "jif", text |-> "jif @"]
    /\ f_ins[2] = [kind |-> "StandardFile", nqtfb |-> self.nqtfb]
    /\ \A k \in 1..self.nqtfb :
         f_ins[2 + k] = [kind |-> "name", obsnam |-> args.obsnam[k]]
    /\ Len(ObsRecords(f_fbob)) <= self.nqtfb
    /\ \A k \in 1..Len(ObsRecords(f_fbob)) :
         k <= self.nqtfb /\ ObsRecords(f_fbob)[k].obsnam = f_ins[2 + k].obsnam

\* Witness of C2: a returned call that wrote observation records of two
\* groups, whose names are the instruction lines.
C2_Witness ==
  /\ Written
  /\ args.nqfb = 2 /\ args.nqobfb[1] >= 1 /\ args.nqobfb[2] >= 1
  /\ Len(f_ins) >= 4
  /\ f_ins[3].obsnam # f_ins[4].obsnam

\* C3: a constructor call with a shape mismatch fails, so no object with
\* such lists exists for write_file to be called on.
C3_MismatchFailsConstruction ==
  (pc # "start" /\ ShapeMismatch(args)) => pc = "failed"

\* The tag of the claims: whitespace trimmed at both ends, upper case.
Trimmed(s) ==
  LET keep == {k \in 1..Len(s) : s[k] \notin Whitespace}
  IN IF keep = {} THEN <<>>
     ELSE SubSeq(s, CHOOSE k \in keep : \A m \in keep : k <= m,
                    CHOOSE k \in keep : \A m \in keep : k >= m)
TagOf(s) == LET t == Trimmed(s) IN [k \in 1..Len(t) |-> UpperChar(t[k])]
Recognized == {<<"C", "H", "D">>, <<"G", "H", "B">>, <<"D", "R", "N">>, <<"R", "I", "V">>}

\* C4: a constructor call whose tag is none of CHD, GHB, DRN, RIV is
\* rejected with a ConfigurationError.
C4_UnknownTagRejected ==
  (pc # "start" /\ TagOf(args.flowtype) \notin Recognized) =>
    (pc = "failed" /\ err = "ConfigurationError")

\* The number of lines of a complete primary file before the header of group
\* i: three leading lines, then for each earlier group its header, its
\* observation records and its cell records.
RECURSIVE GroupStart(_, _)
GroupStart(a, i) ==
  IF i = 1 THEN 3
  ELSE GroupStart(a, i - 1) + 1 + a.nqobfb[i - 1] + Abs(a.nqclfb[i - 1])

\* Cell record j of group i in a complete primary file.
CellRecord(a, file, i, j) == file[GroupStart(a, i) + 1 + a.nqobfb[i] + j]

\* C5: with lists of the documented shapes and a negative flag in some
\* group, construction succeeds, and write_file emits abs(nqclfb[i]) cell
\* lines with factor 1.0 for every group i with a negative flag.
C5_NegativeFlagWritesUnitFactors ==
  (pc # "start" /\ Documented(args) /\ \E i \in 1..args.nqfb : args.nqclfb[i] < 0) =>
    /\ pc = "built"
    /\ writes >= 1 =>
         /\ Len(f_fbob) = GroupStart(args, args.nqfb + 1)
         /\ \A i \in 1..args.nqfb :
              args.nqclfb[i] < 0 =>
                \A j \in 1..Abs(args.nqclfb[i]) :
                  /\ IsCell(CellRecord(args, f_fbob, i, j))
                  /\ CellRecord(args, f_fbob, i, j).factor = "1.0"

\* The largest absolute value of a list, 0 for the empty list.
RECURSIVE MaxAbs(_)
MaxAbs(s) == IF s = <<>> THEN 0
             ELSE LET m == MaxAbs(Tail(s)) IN IF Abs(s[1]) > m THEN Abs(s[1]) ELSE m

\* The dense arrays of the object, with the value of their padding.
DenseArrays == {<<"layer", 0>>, <<"row", 0>>, <<"column", 0>>, <<"factor", "0.0">>}

\* C6: after construction from lists of the documented shapes, layer, row,
\* column and factor have nqfb rows of width max abs(nqclfb[i]); row i
\* starts with the caller's sub-sequence i and is zero from there on.
C6_DenseStorageLeftAligned ==
  (pc = "built" /\ Documented(args)) =>
    \A d \in DenseArrays :
      /\ Len(built0[d[1]]) = args.nqfb
      /\ \A i \in 1..args.nqfb :
           /\ Len(built0[d[1]][i]) = MaxAbs(args.nqclfb)
           /\ \A j \in 1..Len(built0[d[1]][i]) :
                built0[d[1]][i][j] = IF j <= Abs(args.nqclfb[i]) THEN args[d[1]][i][j]
                                     ELSE d[2]

\* C7: in the primary file, group i is one header record (nqobfb[i],
\* nqclfb[i]), then nqobfb[i] observation records, then exactly
\* abs(nqclfb[i]) cell records from the first abs(nqclfb[i]) entries of
\* storage row i; no padding entry is written.
C7_GroupLayoutWithoutPadding ==
  (pc = "built" /\ Documented(args) /\ writes >= 1) =>
    /\ Len(f_fbob) = GroupStart(args, args.nqfb + 1)
    /\ \A i \in 1..args.nqfb :
         /\ f_fbob[GroupStart(args, i) + 1] =
              [kind |-> "group", nqobfb |-> args.nqobfb[i], nqclfb |-> args.nqclfb[i]]
         /\ \A k \in 1..args.nqobfb[i] : IsObs(f_fbob[GroupStart(args, i) + 1 + k])
         /\ \A j \in 1..Abs(args.nqclfb[i]) :
              /\ IsCell(CellRecord(args, f_fbob, i, j))
              /\ CellRecord(args, f_fbob, i, j).layer = built0.layer[i][j]
              /\ CellRecord(args, f_fbob, i, j).row = built0.row[i][j]
              /\ CellRecord(args, f_fbob, i, j).column = built0.column[i][j]
              /\ CellRecord(args, f_fbob, i, j).layer = args.layer[i][j]

\* C8: a second write_file call leaves both files as the first call left
\* them.
C8_WriteFileIdempotent ==
  (pc = "built" /\ writes >= 2) =>
    /\ f_fbob = prev.f_fbob
    /\ f_ins = prev.f_ins
    /\ werr = prev.werr

\* Witness of C8: two returned calls on an object with a negative flag whose
\* caller gave a factor other than 1.0, which the files show as 1.0.
C8_Witness ==
  /\ Written /\ writes = 2 /\ Documented(args)
  /\ \E i \in 1..args.nqfb :
       /\ args.nqclfb[i] < 0
       /\ args.factor[i][1] # "1.0"
       /\ CellRecord(args, f_fbob, i, 1).factor = "1.0"
       /\ CellRecord(args, prev.f_fbob, i, 1).factor = "1.0"

\* C9: the metadata depends on the tag only: type number k of (CHD, GHB,
\* DRN, RIV) selects its name pair, entries [2k : 2k+2] (0-based k) of the
\* extension and unit tables, and the second unit of the pair as iufbobsv,
\* whatever the caller passed; CHD with the default tables gives CHOB/DATA,
\* chob/obc, 40/140 and 140.
C9_TagSelectsMetadata ==
  pc = "built" =>
    /\ TagOf(args.flowtype) \in Recognized
    /\ \A k \in 1..4 :
         TagOf(args.flowtype) = FlowTypes[k] =>
           /\ pkg.name = Names[k]
           /\ pkg.extension = <<args.extension[2 * k - 1], args.extension[2 * k]>>
           /\ pkg.unitnumber = <<args.unitnumber[2 * k - 1], args.unitnumber[2 * k]>>
           /\ self.iufbobsv = args.unitnumber[2 * k]
    /\ (/\ TagOf(args.flowtype) = <<"C", "H", "D">>
        /\ args.extension = DefaultExtension
        /\ args.unitnumber = DefaultUnitnumber) =>
         /\ pkg.name = <<"CHOB", "DATA">>
         /\ pkg.extension = <<"chob", "obc">>
         /\ pkg.unitnumber = <<40, 140>>
         /\ self.iufbobsv = 140

\* Witness of C9: "chd " in lower case with a trailing blank, the caller
\* asking for unit 7, selects the CHD metadata.
C9_Witness ==
  /\ pc = "built"
  /\ args.flowtype = <<"c", "h", "d", " ">>
  /\ args.iufbobsv = 7
  /\ args.unitnumber = DefaultUnitnumber
  /\ self.iufbobsv = 140

\* The attributes write_file never assigns.
Fixed == {"nqfb", "nqcfb", "nqtfb", "iufbobsv", "tomultfb", "nqobfb", "nqclfb",
          "obsnam", "irefsp", "toffset", "flwobs", "layer", "row", "column"}

\* C10: write_file calls change nothing but the factor rows of the groups
\* with a negative flag, which a returned call leaves at 1.0 over their
\* whole padded width.
C10_OnlyNegativeFactorRowsChange ==
  pc = "built" =>
    /\ \A f \in Fixed : self[f] = built0[f]
    /\ Len(self.factor) = Len(built0.factor)
    /\ \A i \in 1..Len(self.factor) :
         /\ Len(self.factor[i]) = Len(built0.factor[i])
         /\ self.nqclfb[i] >= 0 => self.factor[i] = built0.factor[i]
         /\ self.nqclfb[i] < 0 =>
              \/ self.factor[i] = built0.factor[i]
              \/ \A j \in 1..Len(self.factor[i]) : self.factor[i][j] = "1.0"
         /\ (Written /\ self.nqclfb[i] < 0) =>
              \A j \in 1..Len(self.factor[i]) : self.factor[i][j] = "1.0"

\* Witness of C10: a returned call on an object with a negative flag in a
\* group narrower than the arrays: the padding of its factor row, 0.0 after
\* construction, is 1.0.
C10_Witness ==
  /\ Written
  /\ \E i \in 1..self.nqfb :
       /\ self.nqclfb[i] < 0
       /\ Abs(self.nqclfb[i]) < Len(self.factor[i])
       /\ built0.factor[i][Len(built0.factor[i])] = "0.0"
       /\ built0.factor[i][1] = "0.2"
       /\ self.factor[i][Len(self.factor[i])] = "1.0"
       /\ self.factor[i][1] = "1.0"

====
